---- MODULE Spec2Model ----
(***************************************************************************)
(* wasm-metadce: the graph loader of src/tools/wasm-metadce.cpp (main).    *)
(* The program parses a JSON graph description and fills a MetaDCEGraph    *)
(* (nodes, roots, importToDCENode, exportToDCENode) in one loop over the   *)
(* records.  Every step of the loop body is one action, in program order.  *)
(*                                                                         *)
(* The input is drawn as the program examines it: the type of an element   *)
(* when `Ref ref = json[i]` takes it, a field when has() / operator[]      *)
(* first look at it.  `json` is the input as far as it has been examined;  *)
(* a field not yet examined stands in it as absent.                        *)
(***************************************************************************)
EXTENDS Naturals, Sequences, FiniteSets, TLC

\* ---------------------------------------------------------------- bounds
MaxRecords == 2      \* longest top-level array of the graph description

\* ------------------------------------------------------------ JSON values
\* A field that the object does not have.
Absent == "<absent>"
\* A JSON value that is present and is not a string (a number, null, ...).
NonString == "<non-string>"
\* Name(): the null name.
NullName == ""

Names == {"a", "b"}
ExportStrings == {"myExport", "bogus"}
RootValues == {Absent, "true", "false", "<non-bool>"}

\* An array-typed field: absent, present and not an array, or an array.
AbsentVal == [kind |-> "absent", items |-> <<>>]
OtherVal == [kind |-> "other", items |-> <<>>]
ArrayVal(s) == [kind |-> "array", items |-> s]

ReachesValues ==
  {AbsentVal, OtherVal} \cup
  {ArrayVal(s) : s \in {<<"b">>, <<NonString>>, <<"b", NonString>>}}

ImportValues ==
  {AbsentVal, OtherVal} \cup
  {ArrayVal(s) : s \in {<<"env">>, <<"env", NonString>>,
                        <<"env", "f">>, <<"env", "g">>, <<"env", "h">>}}

\* An element of the top-level array, none of its fields examined yet.
Element(isObject) ==
  [obj |-> isObject, name |-> Absent, reaches |-> AbsentVal, root |-> Absent,
   export |-> Absent, import |-> AbsentVal]

\* ------------------------------------------------------------- the module
\* The wasm module read before the graph: its export table (exported names)
\* and its import table (module, base, internal name).
TheModule ==
  [exports |-> {"myExport", "unusedExport"},
   imports |-> {[module |-> "env", base |-> "f", name |-> "fimport$0"]}]

\* ImportUtils::getImport: find an import by module.base, return the
\* internal name; the null name when the module has no such import.
getImport(w, module, base) ==
  IF \E imp \in w.imports : imp.module = module /\ imp.base = base
    THEN (CHOOSE imp \in w.imports : imp.module = module /\ imp.base = base).name
    ELSE NullName

\* ------------------------------------------------------------------ state
VARIABLES
  jsonIsArray,      \* json.isArray()
  size,             \* json.size()
  json,             \* the elements json[0..] as far as they have been examined
  i,                \* loop index: the records fully loaded
  ref,              \* json[i], the record being loaded
  node,             \* DCENode node under construction
  nodes,            \* graph.nodes
  roots,            \* graph.roots
  importToDCENode,  \* graph.importToDCENode
  exportToDCENode,  \* graph.exportToDCENode
  wasm,             \* the module
  pc                \* position in main

vars == <<jsonIsArray, size, json, i, ref, node, nodes, roots,
          importToDCENode, exportToDCENode, wasm, pc>>

graphVars == <<nodes, roots, importToDCENode, exportToDCENode>>

\* std::unordered_map: the empty map and operator[] assignment.
EmptyMap == [k \in {} |-> NullName]
Put(map, key, value) ==
  [k \in DOMAIN map \cup {key} |-> IF k = key THEN value ELSE map[k]]

\* DCENode(Name name): reaches starts empty.
DCENode(name) == [name |-> name, reaches |-> <<>>]

Init ==
  /\ jsonIsArray \in BOOLEAN
  /\ size \in 0..MaxRecords
  /\ (~jsonIsArray => size = 0)
  /\ json = <<>>
  /\ i = 0
  /\ ref = Element(FALSE)
  /\ node = DCENode(NullName)
  /\ nodes = EmptyMap
  /\ roots = <<>>
  /\ importToDCENode = EmptyMap
  /\ exportToDCENode = EmptyMap
  /\ wasm = TheModule
  /\ pc = "start"

\* Fatal() << ...: the process exits.
Fatal == pc' = "fatal"

\* ref is examined and found to be r.
Examine(r) ==
  /\ ref' = r
  /\ json' = [json EXCEPT ![Len(json)] = r]

\* if (!json.isArray()) Fatal; auto size = json.size();
CheckInput ==
  /\ pc = "start"
  /\ IF ~jsonIsArray THEN Fatal ELSE pc' = "loop"
  /\ UNCHANGED <<jsonIsArray, size, json, i, ref, wasm, node, graphVars>>

\* for (i < size) { Ref ref = json[i];
NextRecord ==
  /\ pc = "loop"
  /\ i < size
  /\ \E isObject \in BOOLEAN :
       /\ ref' = Element(isObject)
       /\ json' = Append(json, Element(isObject))
  /\ pc' = "record"
  /\ UNCHANGED <<jsonIsArray, size, i, node, graphVars, wasm>>

\* the loop condition fails: main returns.
LoopExit ==
  /\ pc = "loop"
  /\ i >= size
  /\ pc' = "done"
  /\ UNCHANGED <<jsonIsArray, size, json, i, ref, node, graphVars, wasm>>

\* if (!ref.isObject()) Fatal; if (!has(NAME)) Fatal; DCENode node(ref[NAME]);
\* (line 180 tests `node.has(NAME)` before node exists: it is the test of
\* ref its error message states.  A name that is present is a string.)
CheckRecord ==
  /\ pc = "record"
  /\ IF ~ref.obj
       THEN Fatal /\ UNCHANGED <<ref, json, node>>
       ELSE \E name \in Names \cup {Absent} :
              /\ Examine([ref EXCEPT !.name = name])
              /\ IF name = Absent
                   THEN Fatal /\ UNCHANGED node
                   ELSE node' = DCENode(name) /\ pc' = "reaches"
  /\ UNCHANGED <<jsonIsArray, size, i, wasm, graphVars>>

\* The items pushed to node.reaches before the loop stops: all of them, or
\* those before the first item that is not a string.
RECURSIVE StringPrefix(_)
StringPrefix(s) ==
  IF s = <<>> \/ Head(s) = NonString THEN <<>>
  ELSE <<Head(s)>> \o StringPrefix(Tail(s))

\* if (ref.has(REACHES)) { must be an array of strings; push each }
\* (line 186 tests `reaches.isArray(NAME)`: it is the array test its error
\* message, "node.reaches must be an array", states.)
ReadReaches ==
  /\ pc = "reaches"
  /\ \E reaches \in ReachesValues :
       /\ Examine([ref EXCEPT !.reaches = reaches])
       /\ IF reaches.kind = "absent"
            THEN pc' = "root" /\ UNCHANGED node
            ELSE IF reaches.kind # "array"
              THEN Fatal /\ UNCHANGED node
              ELSE /\ node' = [node EXCEPT !.reaches = StringPrefix(reaches.items)]
                   /\ IF \E j \in 1..Len(reaches.items) : reaches.items[j] = NonString
                        THEN Fatal
                        ELSE pc' = "root"
  /\ UNCHANGED <<jsonIsArray, size, i, wasm, graphVars>>

\* ReadRoot without the test of the value: any `root` field marks a root.
ReadRootUnchecked ==
  /\ pc = "root"
  /\ \E root \in RootValues :
       /\ Examine([ref EXCEPT !.root = root])
       /\ IF root = Absent
            THEN UNCHANGED roots
            ELSE roots' = Append(roots, node.name)
       /\ pc' = "export"
  /\ UNCHANGED <<jsonIsArray, size, i, wasm>>
  /\ UNCHANGED <<node, nodes, importToDCENode, exportToDCENode>>

\* ReadRoot inserting the root at the front of graph.roots.
ReadRootPrepend ==
  /\ pc = "root"
  /\ \E root \in RootValues :
       /\ Examine([ref EXCEPT !.root = root])
       /\ IF root = Absent
            THEN pc' = "export" /\ UNCHANGED roots
            ELSE IF root # "true"
              THEN Fatal /\ UNCHANGED roots
              ELSE roots' = <<node.name>> \o roots /\ pc' = "export"
  /\ UNCHANGED <<jsonIsArray, size, i, wasm>>
  /\ UNCHANGED <<node, nodes, importToDCENode, exportToDCENode>>

\* if (ref.has(ROOT)) { must be the boolean true; roots.push_back(node.name) }
ReadRoot ==
  /\ pc = "root"
  /\ \E root \in RootValues :
       /\ Examine([ref EXCEPT !.root = root])
       /\ IF root = Absent
            THEN pc' = "export" /\ UNCHANGED roots
            ELSE IF root # "true"
              THEN Fatal /\ UNCHANGED roots
              ELSE roots' = Append(roots, node.name) /\ pc' = "export"
  /\ UNCHANGED <<jsonIsArray, size, i, wasm>>
  /\ UNCHANGED <<node, nodes, importToDCENode, exportToDCENode>>

\* ReadExport that also stores the node under construction in graph.nodes.
ReadExportStoring ==
  /\ pc = "export"
  /\ \E export \in ExportStrings \cup {Absent, NonString} :
       /\ Examine([ref EXCEPT !.export = export])
       /\ IF export = Absent
            THEN pc' = "import" /\ UNCHANGED <<exportToDCENode, nodes>>
            ELSE IF export = NonString
              THEN Fatal /\ UNCHANGED <<exportToDCENode, nodes>>
              ELSE /\ exportToDCENode' = Put(exportToDCENode, export, node.name)
                   /\ nodes' = Put(nodes, node.name, node)
                   /\ pc' = "import"
  /\ UNCHANGED <<jsonIsArray, size, i, wasm>>
  /\ UNCHANGED <<node, roots, importToDCENode>>

\* if (ref.has(EXPORT)) { must be a string; exportToDCENode[exp] = node.name }
ReadExport ==
  /\ pc = "export"
  /\ \E export \in ExportStrings \cup {Absent, NonString} :
       /\ Examine([ref EXCEPT !.export = export])
       /\ IF export = Absent
            THEN pc' = "import" /\ UNCHANGED exportToDCENode
            ELSE IF export = NonString
              THEN Fatal /\ UNCHANGED exportToDCENode
              ELSE /\ exportToDCENode' = Put(exportToDCENode, export, node.name)
                   /\ pc' = "import"
  /\ UNCHANGED <<jsonIsArray, size, i, wasm>>
  /\ UNCHANGED <<node, nodes, roots, importToDCENode>>

\* imp.isArray() && imp.size() == 2 && imp[0].isString() && imp[1].isString()
IsImportPair(imp) ==
  /\ imp.kind = "array"
  /\ Len(imp.items) = 2
  /\ imp.items[1] # NonString
  /\ imp.items[2] # NonString

\* if (ref.has(IMPORT)) { must be two strings;
\*   importToDCENode[getImport(wasm, imp[0], imp[1])] = node.name }
ReadImport ==
  /\ pc = "import"
  /\ \E imp \in ImportValues :
       /\ Examine([ref EXCEPT !.import = imp])
       /\ IF imp.kind = "absent"
            THEN pc' = "store" /\ UNCHANGED importToDCENode
            ELSE IF ~IsImportPair(imp)
              THEN Fatal /\ UNCHANGED importToDCENode
              ELSE /\ importToDCENode' =
                        Put(importToDCENode,
                            getImport(wasm, imp.items[1], imp.items[2]),
                            node.name)
                   /\ pc' = "store"
  /\ UNCHANGED <<jsonIsArray, size, i, wasm>>
  /\ UNCHANGED <<node, nodes, roots, exportToDCENode>>

\* graph.nodes[node.name] = node; } i++
StoreNode ==
  /\ pc = "store"
  /\ nodes' = Put(nodes, node.name, node)
  /\ i' = i + 1
  /\ pc' = "loop"
  /\ UNCHANGED <<jsonIsArray, size, json, ref, node, roots,
                 importToDCENode, exportToDCENode, wasm>>

Next ==
  \/ CheckInput
  \/ NextRecord
  \/ LoopExit
  \/ CheckRecord
  \/ ReadReaches
  \/ ReadRoot
  \/ ReadExport
  \/ ReadImport
  \/ StoreNode

Spec == Init /\ [][Next]_vars

\* ------------------------------------------------------- reading the input
HasNonString(s) == \E j \in 1..Len(s) : s[j] = NonString

\* A present field that is an array of exactly two strings.
TwoStrings(v) == v.kind = "array" /\ Len(v.items) = 2 /\ ~HasNonString(v.items)

\* Record k of the input has been loaded completely (stored in graph.nodes).
Loaded(k) == k <= i

\* Record k has passed the import step: its linkage is registered.
Bound(k) == k <= i \/ (k = Len(json) /\ pc = "store")

\* The defects the description of the loader lists, for one record.
ListedDefect(rec) ==
  \/ ~rec.obj
  \/ rec.name = Absent
  \/ rec.reaches.kind = "array" /\ HasNonString(rec.reaches.items)
  \/ rec.root \notin {Absent, "true"}
  \/ rec.export = NonString
  \/ rec.import.kind # "absent" /\ ~TwoStrings(rec.import)

\* The listed defects and one more: `reaches` present and not an array.
LoaderDefect(rec) ==
  ListedDefect(rec) \/ (rec.obj /\ rec.reaches.kind = "other")

\* The load aborts exactly on the inputs with a defect D: a record with the
\* defect is the last one read and is never stored, a non-array input reads
\* no record, and a fatal error happens on no other input.
AbortsExactlyOn(D(_)) ==
  /\ ~jsonIsArray => json = <<>> /\ pc \in {"start", "fatal"}
  /\ \A k \in 1..Len(json) :
       D(json[k]) => k = Len(json) /\ i = k - 1 /\ pc \notin {"store", "loop", "done"}
  /\ pc = "fatal" => ~jsonIsArray \/ \E k \in 1..Len(json) : D(json[k])

DeclaresMissingExport(rec) ==
  rec.obj /\ rec.export \notin {Absent, NonString} /\ rec.export \notin wasm.exports

DeclaresMissingImport(rec) ==
  /\ rec.obj
  /\ TwoStrings(rec.import)
  /\ ~\E imp \in wasm.imports :
        imp.module = rec.import.items[1] /\ imp.base = rec.import.items[2]

\* C2: a record that declares an export the module does not export, or an
\* import the module does not import, ends the run in a fatal error (it is
\* never loaded), and no key of exportToDCENode / importToDCENode is absent
\* from the module's export / import table.
C2_Claim ==
  /\ \A k \in 1..Len(json) :
       DeclaresMissingExport(json[k]) \/ DeclaresMissingImport(json[k])
         => ~Loaded(k) /\ pc # "store"
  /\ \A e \in DOMAIN exportToDCENode : e \in wasm.exports
  /\ \A id \in DOMAIN importToDCENode : \E imp \in wasm.imports : imp.name = id

\* ------------------------------------------------------ dangling references
NoDangling ==
  \A n \in DOMAIN nodes :
    \A j \in 1..Len(nodes[n].reaches) : nodes[n].reaches[j] \in DOMAIN nodes

\* C3: a graph with a `reaches` target that names no loaded node makes the
\* run fail (it never ends normally), and the module's export and import
\* tables stay as they were.
C3_Claim ==
  /\ wasm = TheModule
  /\ pc = "done" => NoDangling

\* ------------------------------------------------------------------ pruning
\* The closure of a set of names under `reaches`.
RECURSIVE Closure(_)
Closure(S) ==
  LET T == S \cup {m \in DOMAIN nodes :
                     \E n \in S \cap DOMAIN nodes :
                       \E j \in 1..Len(nodes[n].reaches) : nodes[n].reaches[j] = m}
  IN IF T = S THEN S ELSE Closure(T)

ReachableSet == Closure({roots[j] : j \in 1..Len(roots)})

AllResolved ==
  \A k \in 1..Len(json) :
    ~DeclaresMissingExport(json[k]) /\ ~DeclaresMissingImport(json[k])

\* C5: when the run has ended on a consistent graph, the module's export
\* table holds exactly the exports bound to a node of the Reachable Set:
\* every other export, also one no node is bound to, has been removed.
C5_Claim ==
  pc = "done" /\ NoDangling /\ AllResolved =>
    wasm.exports =
      {e \in TheModule.exports :
         e \in DOMAIN exportToDCENode /\ exportToDCENode[e] \in ReachableSet}

\* --------------------------------------------------------- duplicate names
\* Record k is the last loaded record with its name.
IsLast(k) ==
  ~\E k2 \in (k + 1)..i : json[k2].name = json[k].name

RECURSIVE LastRootNames(_)
\* The names of the records json[k..] that are the last with their name and
\* carry root: true, in record order.
LastRootNames(k) ==
  IF k > Len(json) THEN <<>>
  ELSE (IF json[k].root = "true" /\ IsLast(k) THEN <<json[k].name>> ELSE <<>>)
       \o LastRootNames(k + 1)

ImportKey(rec) == getImport(wasm, rec.import.items[1], rec.import.items[2])

\* C7: after the load a name loaded twice holds the second record's
\* `reaches`, and nothing of a replaced record remains: the roots and the
\* linkage tables come from the records that are the last with their name.
C7_Claim ==
  pc = "done" =>
    /\ \A k \in 1..Len(json) :
         IsLast(k) => nodes[json[k].name].reaches = json[k].reaches.items
    /\ roots = LastRootNames(1)
    /\ \A e \in DOMAIN exportToDCENode :
         \E k \in 1..Len(json) :
           IsLast(k) /\ json[k].export = e /\ json[k].name = exportToDCENode[e]
    /\ \A id \in DOMAIN importToDCENode :
         \E k \in 1..Len(json) :
           /\ IsLast(k)
           /\ json[k].import.kind = "array"
           /\ ImportKey(json[k]) = id
           /\ json[k].name = importToDCENode[id]

LinkageWritten ==
  exportToDCENode' # exportToDCENode \/ importToDCENode' # importToDCENode

RECURSIVE RootNames(_)
\* The names of the records json[k..] that carry root: true, in record order.
RootNames(k) ==
  IF k > Len(json) THEN <<>>
  ELSE (IF json[k].root = "true" THEN <<json[k].name>> ELSE <<>>)
       \o RootNames(k + 1)

\* C10: after a successful load the root sequence is the names of the
\* records with root: true, in record order, one entry per record, and
\* every root names a node of the Node Store.
C10_Roots ==
  pc = "done" =>
    /\ roots = RootNames(1)
    /\ \A j \in 1..Len(roots) :
         roots[j] \in DOMAIN nodes /\ nodes[roots[j]].name = roots[j]

C10_Witness ==
  /\ pc = "done"
  /\ Len(json) = 2
  /\ json[1].root = Absent
  /\ json[2].root = "true"
  /\ json[1].name # json[2].name
  /\ roots = <<json[2].name>>

TypeOK ==
  /\ pc \in {"start", "loop", "record", "reaches", "root", "export", "import",
             "store", "done", "fatal"}
  /\ i \in 0..size
  /\ Len(json) <= size
  /\ DOMAIN nodes \subseteq Names
====
